---- MODULE Spec2Model ----
(***************************************************************************)
(* Model of the action-sequence verification server (app.py): the /verify  *)
(* handler replaying a list of actions against the Prolog world facts, the *)
(* battery it tracks, the FSM graph it builds and the auto-expansion of    *)
(* the action list.  Coordinates are held in tenths of a unit, so that the *)
(* 1.5 step and the 0.5 / 1.0 thresholds are integers.                     *)
(***************************************************************************)
EXTENDS Integers, Sequences, FiniteSets, TLC

\* ------------------------------------------------------------------ bounds

\* Longest action list a request carries.
MaxLen == 3
\* How many times per run the validate query may raise.
MaxFaults == 1

\* ------------------------------------------------------------ small helpers

Max(a, b) == IF a >= b THEN a ELSE b
Min(a, b) == IF a <= b THEN a ELSE b
Abs(a) == IF a >= 0 THEN a ELSE 0 - a
\* Python's int() on a quotient: truncation toward zero.
TruncDiv(a, b) == IF a >= 0 THEN a \div b ELSE 0 - ((0 - a) \div b)
Range(s) == {s[i] : i \in 1..Len(s)}
\* ", ".join(seq); the element list stands for the joined text.
JoinOrNA(s) == IF s = <<>> THEN <<"N/A">> ELSE s
\* The set of sequences over S of length at most n.
SeqsUpTo(S, n) == UNION {[1..k -> S] : k \in 0..n}

\* ------------------------------------------------- the oracle (rules.pl)

\* The facts rules.pl speaks of, in sorted() order.
FactOrder ==
    <<"area_scanned", "battery_full", "holding_object", "object_detected",
      "powered_off", "powered_on">>
Facts == Range(FactOrder)

\* action/1 of rules.pl.
KnownActions ==
    {"poweron", "poweroff", "checkbattery", "stop", "scanarea", "pickobject",
     "releaseobject", "moveforward", "moveleft", "moveright", "turnleft",
     "turnright"}

\* precondition/2 of rules.pl, in clause order.
Preconditions(a) ==
    CASE a = "poweron" -> <<"powered_off">>
      [] a = "pickobject" -> <<"powered_on", "object_detected">>
      [] a = "releaseobject" -> <<"powered_on", "holding_object">>
      [] a \in KnownActions -> <<"powered_on">>
      [] OTHER -> <<>>

\* The facts validate/2 retracts for a valid action.
Retracts(a) ==
    CASE a = "poweron" -> {"powered_off"}
      [] a = "poweroff" -> {"powered_on"}
      [] a = "pickobject" -> {"object_detected"}
      [] a = "releaseobject" -> {"holding_object"}
      [] OTHER -> {}

\* The facts validate/2 asserts (assertz) for a valid action.
Asserts(a) ==
    CASE a = "poweron" -> <<"powered_on">>
      [] a = "poweroff" -> <<"powered_off">>
      [] a = "scanarea" -> <<"area_scanned">>
      [] a = "pickobject" -> <<"holding_object">>
      [] a = "releaseobject" -> <<"object_detected">>
      [] OTHER -> <<>>

\* validate(Action, Result): the result atom for a world w.
ValidateResult(w, a) ==
    IF a \notin KnownActions THEN "invalid_action"
    ELSE IF Range(Preconditions(a)) \subseteq Range(w) THEN "valid"
    ELSE "precondition_failed"

\* validate(Action, Result): the world after the call.
ValidateWorld(w, a) ==
    IF ValidateResult(w, a) = "valid"
    THEN SelectSeq(w, LAMBDA f : f \notin Retracts(a)) \o Asserts(a)
    ELSE w

\* An atom with a quote in it breaks out of the quoted atom of the query text
\* f"action('{action_atom}')." and the query raises a syntax error.
QuotedAtoms == {"it's"}
QueryRaises(atom) == atom \in QuotedAtoms

\* ------------------------------------------------ world-state conversions

\* The three facts reset_world_state asserts, in assertz order.
ResetWorld == <<"powered_off", "battery_full", "object_detected">>

\* reset_world_state without the retractall.
reset_world_state_NoRetract(w) == w \o ResetWorld
\* reset_world_state that leaves a database that already has facts alone.
reset_world_state_OnlyIfEmpty(w) == IF w = <<>> THEN ResetWorld ELSE w

\* reset_world_state: retractall(world(_)), then the three assertz.
reset_world_state(w) == ResetWorld

\* get_current_world_state / get_initial_world_state: the facts as a set.
get_current_world_state(w) == Range(w)

\* get_final_world_state answering with the facts of the reset.
get_final_world_state_Initial(w) == ResetWorld
\* get_final_world_state: the facts as a list, in database order.
get_final_world_state(w) == w

\* sorted(list(state)).
SortedList(S) == SelectSeq(FactOrder, LAMBDA f : f \in S)

\* state_to_label.
state_to_label(S) == IF S = {} THEN <<"Initial">> ELSE SortedList(S)

\* get_missing_preconditions: the preconditions that are not world facts.
get_missing_preconditions(w, a) ==
    SelectSeq(Preconditions(a), LAMBDA c : c \notin Range(w))

\* ------------------------------------------------------- request parsing

\* str.strip() and str.lower() on the texts a request can carry.
Strip(t) == CASE t = " PowerOn" -> "PowerOn" [] OTHER -> t
Lower(t) ==
    CASE t = "PowerOn" -> "poweron"
      [] t = " PowerOn" -> " poweron"
      [] OTHER -> t

\* An entry of a JSON list: a string, or a non-string with its str() text.
StrEntry(t) == [isStr |-> TRUE, text |-> t]
NonStrEntry(t) == [isStr |-> FALSE, text |-> t]

\* str(a).strip().lower() of a list entry.
NormalizeEntry(e) == Lower(Strip(e.text))

\* AcceptsActions with a missing "actions" field read as the empty list.
AcceptsActions_MissingAsEmpty(data) == data.kind \in {"str", "list", "missing"}

\* The two branches that accept the "actions" field: a string or a list.
AcceptsActions(data) == data.kind \in {"str", "list"}

\* actions_raw.strip("[]").split(",") with every piece stripped; data.items
\* are the pieces between the commas, and "[]" splits into one empty piece.
ParseString(items) ==
    IF items = <<>> THEN <<"">>
    ELSE [i \in 1..Len(items) |-> Strip(items[i].text)]

\* [str(a).strip().lower() for a in data["actions"]].
ParseList(items) == [i \in 1..Len(items) |-> NormalizeEntry(items[i])]

ParseActions(data) ==
    IF data.kind = "str" THEN ParseString(data.items)
    ELSE IF data.kind = "list" THEN ParseList(data.items)
    ELSE <<>>

\* ------------------------------------------------------- auto-expansion

\* Tenths of a unit: the 1.5 step, the 0.5 and 1.0 thresholds, the cap of
\* five steps per axis and the start position (1.0, 1.0).
StepLen == 15
GapThreshold == 5
ReachDistance == 10
MaxAxisSteps == 5
StartX == 10
StartY == 10

Repeat(a, n) == [k \in 1..n |-> a]
MinOf(S) == CHOOSE m \in S : \A o \in S : m <= o

\* StepsNeeded without the + 1.
StepsNeeded_NoPlusOne(dist) == Max(1, TruncDiv(dist - ReachDistance, StepLen))

\* max(1, int((dist - 1.0) / 1.5) + 1)
StepsNeeded(dist) == Max(1, TruncDiv(dist - ReachDistance, StepLen) + 1)

\* LoopCount without the cap and without the break.
LoopCount_NoBreak(pos, obj, delta, steps) == steps

\* LoopCount over range(steps), without the cap.
LoopCount_NoCap(pos, obj, delta, steps) ==
    LET hits == {k \in 1..steps : Abs(obj - (pos + delta * k)) <= ReachDistance}
    IN IF hits = {} THEN steps ELSE MinOf(hits)

\* The for loop over range(min(steps, 5)) with its break: how many steps
\* are appended when the robot starts at pos and moves by delta per step.
LoopCount(pos, obj, delta, steps) ==
    LET cap == Min(steps, MaxAxisSteps)
        hits == {k \in 1..cap : Abs(obj - (pos + delta * k)) <= ReachDistance}
    IN IF hits = {} THEN cap ELSE MinOf(hits)

\* The first object at the smallest Euclidean distance (dist < min_dist).
Dist2(obj, x, y) == (obj[1] - x) * (obj[1] - x) + (obj[2] - y) * (obj[2] - y)
NearestObject(manual_objects, x, y) ==
    LET i == CHOOSE i \in 1..Len(manual_objects) :
                 /\ \A j \in 1..Len(manual_objects) :
                        Dist2(manual_objects[i], x, y) <= Dist2(manual_objects[j], x, y)
                 /\ \A j \in 1..(i - 1) :
                        Dist2(manual_objects[j], x, y) > Dist2(manual_objects[i], x, y)
    IN manual_objects[i]

\* The lateral steps inserted for an object at obj_x.
LateralCount(obj_x, x) ==
    LET dist_x == obj_x - x
    IN IF Abs(dist_x) > GapThreshold
       THEN IF dist_x > 0
            THEN LoopCount(x, obj_x, StepLen, StepsNeeded(dist_x))
            ELSE LoopCount(x, obj_x, 0 - StepLen, StepsNeeded(Abs(dist_x)))
       ELSE 0
\* LateralAction with the directions swapped.
LateralAction_Swapped(obj_x, x) == IF obj_x - x > 0 THEN "moveleft" ELSE "moveright"
LateralAction(obj_x, x) == IF obj_x - x > 0 THEN "moveright" ELSE "moveleft"

\* ForwardCount with the test of the lateral axis: abs(dist_y) > 0.5.
ForwardCount_AbsGap(obj_y, y) ==
    LET dist_y == obj_y - y
    IN IF Abs(dist_y) > GapThreshold
       THEN LoopCount(y, obj_y, StepLen, StepsNeeded(dist_y))
       ELSE 0

\* The forward steps inserted for an object at obj_y.
ForwardCount(obj_y, y) ==
    LET dist_y == obj_y - y
    IN IF dist_y > GapThreshold
       THEN LoopCount(y, obj_y, StepLen, StepsNeeded(dist_y))
       ELSE 0

\* The robot position after actions[i] itself.
MoveX(current, x) ==
    CASE current = "moveleft" -> x - StepLen
      [] current = "moveright" -> x + StepLen
      [] OTHER -> x
MoveY(current, y) == IF current = "moveforward" THEN y + StepLen ELSE y

\* NextIsPickup looking at actions[i] itself.
NextIsPickup_Current(actions, i) ==
    /\ i < Len(actions)
    /\ Lower(Strip(actions[i])) = "pickobject"

\* i < len(actions) - 1 and actions[i + 1] is pickobject (i counted from 1).
NextIsPickup(actions, i) ==
    /\ i < Len(actions)
    /\ Lower(Strip(actions[i + 1])) = "pickobject"

\* LegacyMoves whatever the action before the pickup is.
LegacyMoves_Always(current) == <<"moveforward", "moveforward">>

\* Without manual objects: two moveforward after scanarea.
LegacyMoves(current) ==
    IF current = "scanarea" THEN <<"moveforward", "moveforward">> ELSE <<>>

\* One turn of the while loop of auto_expand_sequence, from index i on.
RECURSIVE ExpandFrom(_, _, _, _, _)
ExpandFrom(actions, manual_objects, i, x0, y0) ==
    IF i > Len(actions) THEN <<>>
    ELSE
      LET current == Lower(Strip(actions[i]))
          x == MoveX(current, x0)
          y == MoveY(current, y0)
          beforePick == NextIsPickup(actions, i)
          useObject == beforePick /\ manual_objects # <<>>
          obj == IF useObject THEN NearestObject(manual_objects, x, y) ELSE <<x, y>>
          nx == IF useObject THEN LateralCount(obj[1], x) ELSE 0
          ny == IF useObject THEN ForwardCount(obj[2], y) ELSE 0
          sx == IF obj[1] - x > 0 THEN StepLen ELSE 0 - StepLen
          inserted ==
              IF useObject
              THEN Repeat(LateralAction(obj[1], x), nx) \o Repeat("moveforward", ny)
              ELSE IF beforePick THEN LegacyMoves(current) ELSE <<>>
      IN <<actions[i]>> \o inserted
           \o ExpandFrom(actions, manual_objects, i + 1, x + sx * nx, y + StepLen * ny)

auto_expand_sequence(actions, manual_objects) ==
    ExpandFrom(actions, manual_objects, 1, StartX, StartY)

\* ------------------------------------------------------- the requests

\* The texts a request's action list is drawn from.
StringTexts ==
    {" PowerOn", "scanarea", "moveforward", "pickobject", "flyaway", "it's"}
ListEntries == {StrEntry(t) : t \in StringTexts} \cup {NonStrEntry("42")}

\* manual_objects of a request, in tenths: (5.0, 4.0) and (1.0, 10.0).
ManualChoices == {<<>>, << <<50, 40>> >>, << <<10, 100>> >>}

\* The JSON bodies: "actions" as a list, as one bracketed string, as a value
\* of another type, or missing; with "auto_expand" and "manual_objects".
Options ==
    {[auto_expand |-> FALSE, manual_objects |-> <<>>]}
      \cup {[auto_expand |-> TRUE, manual_objects |-> m] : m \in ManualChoices}
Bodies ==
    {[kind |-> "list", items |-> it, auto_expand |-> o.auto_expand,
      manual_objects |-> o.manual_objects] :
        it \in SeqsUpTo(ListEntries, MaxLen), o \in Options}
      \cup
    {[kind |-> "str", items |-> it, auto_expand |-> o.auto_expand,
      manual_objects |-> o.manual_objects] :
        it \in SeqsUpTo({StrEntry(" PowerOn"), StrEntry("pickobject")}, MaxLen),
        o \in Options}
      \cup
    {[kind |-> k, items |-> <<>>, auto_expand |-> TRUE, manual_objects |-> <<>>] :
        k \in {"missing", "number"}}
NoBody == [kind |-> "none", items |-> <<>>, auto_expand |-> FALSE, manual_objects |-> <<>>]

\* ----------------------------------------------------------- the state

VARIABLES
    world,            \* the world/1 facts of the Prolog database, in order
    pc,               \* where the handler serving the request is
    endpoint,         \* the route of the request: "verify" or "fsm"
    data,             \* request.get_json() of the request being served
    actions,          \* the parsed (and expanded) action list
    step,             \* how many turns of the for loop have run
    results,
    all_valid,
    battery_level,
    battery_history,
    fsm_nodes,
    fsm_edges,
    current_state,
    state_id_map,
    node_counter,
    faults,           \* how many validate queries raised in this run
    response,         \* what the handler returned
    other,            \* a second handler thread working on the same facts
    first_run,        \* the body and the report of the first request served
    expand,           \* a call of auto_expand_sequence, turn by turn
    gui               \* the animation globals of the GUI and its loop threads

vars ==
    <<world, pc, endpoint, data, actions, step, results, all_valid, battery_level,
      battery_history, fsm_nodes, fsm_edges, current_state, state_id_map,
      node_counter, faults, response, other, first_run, expand, gui>>

\* What the handler of the modelled request never writes.
aux == <<other, first_run, expand, gui>>

locals ==
    <<actions, step, results, all_valid, battery_level, battery_history,
      fsm_nodes, fsm_edges, current_state, state_id_map, node_counter, faults>>

NoResponse == [status |-> 0]
NoOther == [pc |-> "idle", actions |-> <<>>, step |-> 0]
NoFirst == [data |-> NoBody, response |-> NoResponse]
\* ui.py at start: animation_data = None, current_animation_step = 0,
\* is_animating = False, and no animation_loop thread.
MaxLoops == 2
NoLoop == [pc |-> "none", reg |-> 0, advanced |-> FALSE]
NoGui ==
    [animation_data |-> <<>>, current_animation_step |-> 0, is_animating |-> FALSE,
     loops |-> [t \in 1..MaxLoops |-> NoLoop]]
NoExpand ==
    [pc |-> "idle", actions |-> <<>>, manual_objects |-> <<>>, i |-> 0,
     robot_x |-> StartX, robot_y |-> StartY, expanded |-> <<>>, picks |-> <<>>]
\* state_id_map.get(key) of a key that is not in the map.
NoneId == 0 - 1
EmptyMap == [k \in {} |-> 0]

NoLocals ==
    /\ actions = <<>>
    /\ step = 0
    /\ results = <<>>
    /\ all_valid = TRUE
    /\ battery_level = 100
    /\ battery_history = <<>>
    /\ fsm_nodes = <<>>
    /\ fsm_edges = <<>>
    /\ current_state = {}
    /\ state_id_map = EmptyMap
    /\ node_counter = 0
    /\ faults = 0

\* The locals of a handler that has returned.
ClearLocals ==
    /\ actions' = <<>>
    /\ step' = 0
    /\ results' = <<>>
    /\ all_valid' = TRUE
    /\ battery_level' = 100
    /\ battery_history' = <<>>
    /\ fsm_nodes' = <<>>
    /\ fsm_edges' = <<>>
    /\ current_state' = {}
    /\ state_id_map' = EmptyMap
    /\ node_counter' = 0
    /\ faults' = 0

\* The server has consulted rules.pl and serves no request.
Init ==
    /\ world \in {<<>>, ResetWorld}
    /\ pc = "idle"
    /\ endpoint = "none"
    /\ data = NoBody
    /\ response = NoResponse
    /\ other = NoOther
    /\ first_run = NoFirst
    /\ expand = NoExpand
    /\ gui = NoGui
    /\ NoLocals

\* ------------------------------------------------------ the /verify steps

\* BatteryDrain with scanarea listed among the movements.
BatteryDrain_ScanAsMove(action_atom) ==
    IF action_atom \in {"moveforward", "moveleft", "moveright", "turnleft", "turnright",
                        "scanarea"}
    THEN 20
    ELSE IF action_atom \in {"pickobject", "releaseobject"}
    THEN 10
    ELSE 0

\* The battery tracking of one step.
BatteryDrain(action_atom) ==
    IF action_atom \in {"moveforward", "moveleft", "moveright", "turnleft", "turnright"}
    THEN 20
    ELSE IF action_atom \in {"scanarea", "pickobject", "releaseobject"}
    THEN 10
    ELSE 0
\* BatteryAfter without the floor at 0.
BatteryAfter_NoFloor(result, action_atom, level) ==
    IF result = "valid" THEN level - BatteryDrain(action_atom) ELSE level
\* BatteryAfter with the operands of the subtraction swapped.
BatteryAfter_Swapped(result, action_atom, level) ==
    IF result = "valid" THEN Max(0, BatteryDrain(action_atom) - level) ELSE level

BatteryAfter(result, action_atom, level) ==
    IF result = "valid" THEN Max(0, level - BatteryDrain(action_atom)) ELSE level

\* The explanation of a step: which sentence, and the atoms it lists.
Explanation(result, preconditions, missing_preconditions) ==
    CASE result = "valid" ->
           [sentence |-> "is valid", atoms |-> preconditions]
      [] result = "precondition_failed" ->
           [sentence |-> "failed", atoms |-> missing_preconditions]
      [] result = "invalid_action" ->
           [sentence |-> "is not a recognized action", atoms |-> <<>>]
      [] OTHER ->
           [sentence |-> "resulted in error", atoms |-> <<result>>]

\* InvalidActionRecord with an empty to_state.
InvalidActionRecord_NoToState(action_atom, from_state_list) ==
    [action |-> action_atom,
     result |-> "invalid_action",
     precondition |-> <<"N/A">>,
     precondition_met |-> FALSE,
     explanation |-> [sentence |-> "is not a recognized action. Valid actions are",
                      atoms |-> <<>>],
     from_state |-> from_state_list,
     to_state |-> <<>>]

\* The record of a step whose action the oracle does not know.
InvalidActionRecord(action_atom, from_state_list) ==
    [action |-> action_atom,
     result |-> "invalid_action",
     precondition |-> <<"N/A">>,
     precondition_met |-> FALSE,
     explanation |-> [sentence |-> "is not a recognized action. Valid actions are",
                      atoms |-> <<>>],
     from_state |-> from_state_list,
     to_state |-> from_state_list]

\* The 400 answer: "actions" is neither a string nor a list.
Reject(d) ==
    /\ UNCHANGED aux
    /\ ~AcceptsActions(d)
    /\ endpoint' \in {"verify", "fsm"}
    /\ data' = d
    /\ pc' = "rejected"
    /\ response' = [status |-> 400, error |-> "Actions must be a string or list"]
    /\ UNCHANGED <<world, locals>>

\* From the parsing of the body to the initial FSM node.
VerifyStart(d) ==
    /\ UNCHANGED aux
    /\ AcceptsActions(d)
    /\ endpoint' = "verify"
    /\ data' = d
    /\ actions' = IF d.auto_expand
                  THEN auto_expand_sequence(ParseActions(d), d.manual_objects)
                  ELSE ParseActions(d)
    /\ world' = reset_world_state(world)
    /\ results' = <<>>
    /\ all_valid' = TRUE
    /\ battery_level' = 100
    /\ battery_history' = <<>>
    /\ current_state' = get_current_world_state(world')
    /\ state_id_map' = [k \in {get_current_world_state(world')} |-> 0]
    /\ fsm_nodes' =
         << [id |-> 0,
             label |-> state_to_label(get_current_world_state(world')),
             state |-> SortedList(get_current_world_state(world')),
             step |-> 0,
             type |-> "initial"] >>
    /\ fsm_edges' = <<>>
    /\ node_counter' = 1
    /\ step' = 0
    /\ faults' = 0
    /\ pc' = "loop"
    /\ response' = NoResponse

\* The atom of the turn about to run: action.strip().lower().
ActionAtom == Lower(Strip(actions[step + 1]))

\* list(prolog.query(f"action('{action_atom}').")) is not empty.
IsKnownAction(action_atom) == action_atom \in KnownActions

\* MarkInvalid with only a raised query marking the run invalid.
MarkInvalid_ErrorsOnly(result, valid_so_far) ==
    IF result = "error_processing" THEN FALSE ELSE valid_so_far

\* if result != "valid": all_valid = False
MarkInvalid(result, valid_so_far) == IF result # "valid" THEN FALSE ELSE valid_so_far

\* The node table after "create or get state node".
\* The node table with a node appended for every snapshot, seen before or not.
NodesAfter_AlwaysNew(nodes, map, counter, new_state, result, stepno) ==
    Append(nodes,
           [id |-> counter,
            label |-> state_to_label(new_state),
            state |-> SortedList(new_state),
            step |-> stepno,
            type |-> IF result = "valid" THEN "valid" ELSE "invalid"])

\* The id map with a new fact set given the id after the next free one.
MapAfter_SkipId(map, counter, new_state) ==
    IF new_state \in DOMAIN map THEN map
    ELSE [k \in DOMAIN map \cup {new_state} |->
            IF k = new_state THEN counter + 1 ELSE map[k]]

NodesAfter(nodes, map, counter, new_state, result, stepno) ==
    IF new_state \in DOMAIN map THEN nodes
    ELSE Append(nodes,
                [id |-> counter,
                 label |-> state_to_label(new_state),
                 state |-> SortedList(new_state),
                 step |-> stepno,
                 type |-> IF result = "valid" THEN "valid" ELSE "invalid"])
\* The id map with the next free id written also for a fact set seen before.
MapAfter_Overwrite(map, counter, new_state) ==
    [k \in DOMAIN map \cup {new_state} |->
        IF k = new_state THEN counter ELSE map[k]]

MapAfter(map, counter, new_state) ==
    IF new_state \in DOMAIN map THEN map
    ELSE [k \in DOMAIN map \cup {new_state} |->
            IF k = new_state THEN counter ELSE map[k]]

InLoop == pc = "loop" /\ endpoint = "verify" /\ step < Len(actions)

\* A turn whose action check raises: nothing catches it, the request ends
\* with a 500 and no report.
VerifyStepRaises ==
    /\ UNCHANGED aux
    /\ InLoop
    /\ QueryRaises(ActionAtom)
    /\ pc' = "crashed"
    /\ response' = [status |-> 500]
    /\ UNCHANGED <<world, endpoint, data, locals>>

\* A turn whose action the oracle does not know: the record, and continue.
VerifyStepUnknown ==
    /\ UNCHANGED aux
    /\ InLoop
    /\ ~QueryRaises(ActionAtom)
    /\ ~IsKnownAction(ActionAtom)
    /\ results' = Append(results,
                         InvalidActionRecord(ActionAtom,
                                             SortedList(get_current_world_state(world))))
    /\ all_valid' = FALSE
    /\ step' = step + 1
    /\ UNCHANGED <<world, pc, endpoint, data, actions, battery_level, battery_history,
                   fsm_nodes, fsm_edges, current_state, state_id_map,
                   node_counter, faults, response>>

\* A turn whose action the oracle knows; raised tells whether the validate
\* query raised inside the try.
VerifyStepKnown(raised) ==
    /\ UNCHANGED aux
    /\ InLoop
    /\ ~QueryRaises(ActionAtom)
    /\ IsKnownAction(ActionAtom)
    /\ raised => faults < MaxFaults
    /\ LET action_atom == ActionAtom
           from_state_id == IF current_state \in DOMAIN state_id_map
                            THEN state_id_map[current_state]
                            ELSE NoneId
           from_state_list == SortedList(get_current_world_state(world))
           preconditions == Preconditions(action_atom)
           result == IF raised THEN "error_processing"
                     ELSE ValidateResult(world, action_atom)
           after == IF raised THEN world ELSE ValidateWorld(world, action_atom)
           missing_preconditions == get_missing_preconditions(after, action_atom)
           new_state == get_current_world_state(after)
           level == BatteryAfter(result, action_atom, battery_level)
           new_map == MapAfter(state_id_map, node_counter, new_state)
       IN /\ world' = after
          /\ faults' = IF raised THEN faults + 1 ELSE faults
          /\ battery_level' = level
          /\ battery_history' = Append(battery_history, level)
          /\ current_state' = new_state
          /\ fsm_nodes' = NodesAfter(fsm_nodes, state_id_map, node_counter,
                                     new_state, result, step + 1)
          /\ state_id_map' = new_map
          /\ node_counter' = IF new_state \in DOMAIN state_id_map
                             THEN node_counter ELSE node_counter + 1
          /\ fsm_edges' = Append(fsm_edges,
                                 [from |-> from_state_id,
                                  to |-> new_map[new_state],
                                  label |-> action_atom,
                                  action |-> action_atom,
                                  step |-> step + 1,
                                  valid |-> (result = "valid"),
                                  precondition |-> JoinOrNA(preconditions)])
          /\ results' = Append(results,
                               [action |-> action_atom,
                                result |-> result,
                                precondition |-> JoinOrNA(preconditions),
                                precondition_met |-> (missing_preconditions = <<>>),
                                explanation |-> Explanation(result, preconditions,
                                                            missing_preconditions),
                                from_state |-> from_state_list,
                                to_state |-> SortedList(new_state),
                                battery |-> level])
          /\ all_valid' = MarkInvalid(result, all_valid)
    /\ step' = step + 1
    /\ UNCHANGED <<pc, endpoint, data, actions, response>>

\* summary = "VALID SEQUENCE" if all_valid else "INVALID SEQUENCE"
Summary(valid) == IF valid THEN "VALID SEQUENCE" ELSE "INVALID SEQUENCE"

\* The count in summary_details.
InvalidCount(recs) == Cardinality({i \in 1..Len(recs) : recs[i].result # "valid"})

\* After the loop: the summary and the 200 answer.
VerifyFinish ==
    /\ UNCHANGED aux
    /\ pc = "loop"
    /\ endpoint = "verify"
    /\ step = Len(actions)
    /\ pc' = "done"
    /\ response' =
         [status |-> 200,
          validation |-> results,
          summary |-> Summary(all_valid),
          summary_details |-> IF all_valid
                              THEN [all |-> TRUE, count |-> Len(actions)]
                              ELSE [all |-> FALSE, count |-> InvalidCount(results)],
          final_state |-> get_final_world_state(world),
          final_battery |-> battery_level,
          battery_history |-> battery_history,
          fsm |-> [nodes |-> fsm_nodes, edges |-> fsm_edges]]
    /\ UNCHANGED <<world, endpoint, data, locals>>

\* ---------------------------------------------------------- the /fsm steps

\* /fsm reads "actions" alone: its bodies carry no other field.
FsmBodies == {d \in Bodies : ~d.auto_expand /\ AcceptsActions(d)}

\* From the parsing of the body to the initial FSM node.
FsmStart(d) ==
    /\ UNCHANGED aux
    /\ endpoint' = "fsm"
    /\ data' = d
    /\ actions' = ParseActions(d)
    /\ world' = reset_world_state(world)
    /\ current_state' = get_current_world_state(world')
    /\ state_id_map' = [k \in {get_current_world_state(world')} |-> 0]
    /\ fsm_nodes' =
         << [id |-> 0,
             label |-> state_to_label(get_current_world_state(world')),
             state |-> SortedList(get_current_world_state(world')),
             step |-> 0,
             type |-> "initial"] >>
    /\ fsm_edges' = <<>>
    /\ node_counter' = 1
    /\ step' = 0
    /\ faults' = 0
    /\ pc' = "loop"
    /\ response' = NoResponse
    /\ UNCHANGED <<results, all_valid, battery_level, battery_history>>

InFsmLoop == pc = "loop" /\ endpoint = "fsm" /\ step < Len(actions)

\* A turn whose action check raises: the request ends with a 500.
FsmStepRaises ==
    /\ UNCHANGED aux
    /\ InFsmLoop
    /\ QueryRaises(ActionAtom)
    /\ pc' = "crashed"
    /\ response' = [status |-> 500]
    /\ UNCHANGED <<world, endpoint, data, locals>>

\* A turn whose action the oracle does not know: continue, with no edge.
FsmStepUnknown ==
    /\ UNCHANGED aux
    /\ InFsmLoop
    /\ ~QueryRaises(ActionAtom)
    /\ ~IsKnownAction(ActionAtom)
    /\ step' = step + 1
    /\ UNCHANGED <<world, pc, endpoint, data, actions, results, all_valid,
                   battery_level, battery_history, fsm_nodes, fsm_edges,
                   current_state, state_id_map, node_counter, faults, response>>

\* is_valid with a failed precondition counted as valid.
FsmIsValid_NotUnknown(raised, result) == ~raised /\ result # "invalid_action"

\* is_valid = (result == "valid"), and False when the query raised.
FsmIsValid(raised, result) == ~raised /\ result = "valid"

\* A turn whose action the oracle knows.
FsmStepKnown(raised) ==
    /\ UNCHANGED aux
    /\ InFsmLoop
    /\ ~QueryRaises(ActionAtom)
    /\ IsKnownAction(ActionAtom)
    /\ raised => faults < MaxFaults
    /\ LET action_atom == ActionAtom
           from_state_id == IF current_state \in DOMAIN state_id_map
                            THEN state_id_map[current_state]
                            ELSE NoneId
           preconditions == Preconditions(action_atom)
           is_valid == FsmIsValid(raised, ValidateResult(world, action_atom))
           after == IF raised THEN world ELSE ValidateWorld(world, action_atom)
           new_state == get_current_world_state(after)
           new_map == MapAfter(state_id_map, node_counter, new_state)
       IN /\ world' = after
          /\ faults' = IF raised THEN faults + 1 ELSE faults
          /\ current_state' = new_state
          /\ fsm_nodes' = NodesAfter(fsm_nodes, state_id_map, node_counter, new_state,
                                     IF is_valid THEN "valid" ELSE "invalid", step + 1)
          /\ state_id_map' = new_map
          /\ node_counter' = IF new_state \in DOMAIN state_id_map
                             THEN node_counter ELSE node_counter + 1
          /\ fsm_edges' = Append(fsm_edges,
                                 [from |-> from_state_id,
                                  to |-> new_map[new_state],
                                  label |-> action_atom,
                                  action |-> action_atom,
                                  step |-> step + 1,
                                  valid |-> is_valid,
                                  precondition |-> JoinOrNA(preconditions)])
    /\ step' = step + 1
    /\ UNCHANGED <<pc, endpoint, data, actions, results, all_valid, battery_level,
                   battery_history, response>>

\* After the loop: the nodes and the edges.
FsmFinish ==
    /\ UNCHANGED aux
    /\ pc = "loop"
    /\ endpoint = "fsm"
    /\ step = Len(actions)
    /\ pc' = "done"
    /\ response' = [status |-> 200, nodes |-> fsm_nodes, edges |-> fsm_edges]
    /\ UNCHANGED <<world, endpoint, data, locals>>

\* The handler has returned: its locals are gone, the world facts stay.
Return ==
    /\ UNCHANGED aux
    /\ pc \in {"done", "rejected", "crashed"}
    /\ pc' = "idle"
    /\ endpoint' = "none"
    /\ data' = NoBody
    /\ response' = NoResponse
    /\ ClearLocals
    /\ UNCHANGED world

\* A request arrives when the server serves none.
RejectRequest == pc = "idle" /\ \E d \in Bodies : Reject(d)
VerifyRequest == pc = "idle" /\ \E d \in Bodies : VerifyStart(d)
FsmRequest == pc = "idle" /\ \E d \in FsmBodies : FsmStart(d)

Next ==
    \/ RejectRequest
    \/ VerifyRequest
    \/ VerifyStepRaises
    \/ VerifyStepUnknown
    \/ \E raised \in BOOLEAN : VerifyStepKnown(raised)
    \/ VerifyFinish
    \/ FsmRequest
    \/ FsmStepRaises
    \/ FsmStepUnknown
    \/ \E raised \in BOOLEAN : FsmStepKnown(raised)
    \/ FsmFinish
    \/ Return

Spec == Init /\ [][Next]_vars

\* ------------------------------------------- a request served once more

\* The action lists of the request that is served first and remembered.
RememberedItems ==
    {<<StrEntry(" PowerOn"), StrEntry("scanarea"), StrEntry("pickobject")>>,
     <<StrEntry("scanarea"), StrEntry(" PowerOn"), StrEntry("pickobject")>>,
     <<StrEntry("flyaway"), StrEntry(" PowerOn")>>}
RememberedBodies ==
    {d \in Bodies :
        d.kind = "list" /\ d.items \in RememberedItems /\ d.manual_objects = <<>>}

\* The first request after the start of the server: a /verify request.
FirstRequest ==
    /\ pc = "idle"
    /\ first_run = NoFirst
    /\ \E d \in RememberedBodies : VerifyStart(d)

\* The first request returns: its body and its report are remembered.
ReturnFirst ==
    /\ pc = "done"
    /\ first_run = NoFirst
    /\ first_run' = [data |-> data, response |-> response]
    /\ pc' = "idle"
    /\ endpoint' = "none"
    /\ data' = NoBody
    /\ response' = NoResponse
    /\ ClearLocals
    /\ UNCHANGED <<world, other, expand, gui>>

\* The requests after the first one, each served alone, the oracle answering
\* every query.
NextRepeat ==
    \/ FirstRequest
    \/ ReturnFirst
    \/ first_run # NoFirst /\ RejectRequest
    \/ first_run # NoFirst /\ VerifyRequest
    \/ first_run # NoFirst /\ FsmRequest
    \/ first_run # NoFirst /\ Return
    \/ VerifyStepRaises
    \/ VerifyStepUnknown
    \/ VerifyStepKnown(FALSE)
    \/ VerifyFinish
    \/ FsmStepRaises
    \/ FsmStepUnknown
    \/ FsmStepKnown(FALSE)
    \/ FsmFinish

SpecRepeat == Init /\ [][NextRepeat]_vars

\* ------------------------------------------- two requests served at once

\* The server runs one thread per request and the handlers take no lock: a
\* second handler works on the same world facts while the first is in its
\* loop.  Of the second handler only what it does to the facts is kept.
OtherActionLists == {<<"poweron">>, <<"poweron", "pickobject">>, <<"flyaway">>}

\* The second handler parses its body and calls reset_world_state.
OtherStart ==
    /\ other.pc = "idle"
    /\ \E acts \in OtherActionLists :
           other' = [pc |-> "loop", actions |-> acts, step |-> 0]
    /\ world' = reset_world_state(world)
    /\ UNCHANGED <<pc, endpoint, data, locals, response, first_run, expand, gui>>

\* One turn of the loop of the second handler: the action check and, for an
\* action the oracle knows, the validate query with its effects.
OtherStep ==
    /\ other.pc = "loop"
    /\ other.step < Len(other.actions)
    /\ LET action_atom == other.actions[other.step + 1]
       IN world' = IF IsKnownAction(action_atom)
                   THEN ValidateWorld(world, action_atom)
                   ELSE world
    /\ other' = [other EXCEPT !.step = other.step + 1]
    /\ UNCHANGED <<pc, endpoint, data, locals, response, first_run, expand, gui>>

\* The second handler returns.
OtherFinish ==
    /\ other.pc = "loop"
    /\ other.step = Len(other.actions)
    /\ other' = NoOther
    /\ UNCHANGED <<world, pc, endpoint, data, locals, response, first_run, expand, gui>>

\* The first handler serves /verify requests with one of the remembered
\* bodies.
ConcRequest ==
    /\ pc = "idle"
    /\ \E d \in RememberedBodies : VerifyStart(d)

NextConc ==
    \/ ConcRequest
    \/ VerifyStepUnknown
    \/ VerifyStepKnown(FALSE)
    \/ VerifyFinish
    \/ Return
    \/ OtherStart
    \/ OtherStep
    \/ OtherFinish

SpecConc == Init /\ [][NextConc]_vars

\* ------------------------------------------ auto_expand_sequence by turns

\* The action lists and the manual objects auto_expand_sequence is called
\* with; coordinates in tenths: (5.0, 4.0), (1.0, 10.0), (13.0, 10.0),
\* (1.0, 1.0), (8.5, 8.5), (-6.5, 0.0), (1.6, 1.6).
ExpandTexts == {"scanarea", "moveforward", "moveleft", "pickobject"}
ExpandInputs == SeqsUpTo(ExpandTexts, MaxLen)
ObjectChoices ==
    {<<50, 40>>, <<10, 100>>, <<130, 100>>, <<10, 10>>, <<85, 85>>, <<0 - 65, 0>>,
     <<16, 16>>}
MaxObjects == 2
ExpandObjects == SeqsUpTo(ObjectChoices, MaxObjects)

\* The call: expanded = [], i = 0, the robot at robot_start_pos.
ExpandStart ==
    /\ expand.pc = "idle"
    /\ \E acts \in ExpandInputs, objs \in ExpandObjects :
           expand' = [pc |-> "loop", actions |-> acts, manual_objects |-> objs,
                      i |-> 0, robot_x |-> StartX, robot_y |-> StartY,
                      expanded |-> <<>>, picks |-> <<>>]
    /\ UNCHANGED <<world, pc, endpoint, data, locals, response, other, first_run, gui>>

\* One turn of the while loop.  For a turn that looks at a pickup with manual
\* objects at hand, picks keeps which pickup it was, the object found, where
\* the robot stood and what was inserted.
ExpandTurn ==
    /\ expand.pc = "loop"
    /\ expand.i < Len(expand.actions)
    /\ LET acts == expand.actions
           current == Lower(Strip(acts[expand.i + 1]))
           x == MoveX(current, expand.robot_x)
           y == MoveY(current, expand.robot_y)
           beforePick == NextIsPickup(acts, expand.i + 1)
           useObject == beforePick /\ expand.manual_objects # <<>>
           obj == IF useObject THEN NearestObject(expand.manual_objects, x, y)
                  ELSE <<x, y>>
           nx == IF useObject THEN LateralCount(obj[1], x) ELSE 0
           ny == IF useObject THEN ForwardCount(obj[2], y) ELSE 0
           sx == IF obj[1] - x > 0 THEN StepLen ELSE 0 - StepLen
           inserted ==
               IF useObject
               THEN Repeat(LateralAction(obj[1], x), nx) \o Repeat("moveforward", ny)
               ELSE IF beforePick THEN LegacyMoves(current) ELSE <<>>
           out == Append(expand.expanded, acts[expand.i + 1]) \o inserted
       IN expand' =
            [expand EXCEPT
               !.i = expand.i + 1,
               !.robot_x = x + sx * nx,
               !.robot_y = y + StepLen * ny,
               !.expanded = out,
               !.picks = IF useObject
                         THEN Append(expand.picks,
                                     [index |-> expand.i + 1,
                                      nearest_obj |-> obj,
                                      from |-> <<x, y>>,
                                      inserted |-> inserted,
                                      upto |-> Len(out)])
                         ELSE expand.picks]
    /\ UNCHANGED <<world, pc, endpoint, data, locals, response, other, first_run, gui>>

\* return expanded
ExpandFinish ==
    /\ expand.pc = "loop"
    /\ expand.i = Len(expand.actions)
    /\ expand' = [expand EXCEPT !.pc = "done"]
    /\ UNCHANGED <<world, pc, endpoint, data, locals, response, other, first_run, gui>>

\* The caller has taken the list.
ExpandReturn ==
    /\ expand.pc = "done"
    /\ expand' = NoExpand
    /\ UNCHANGED <<world, pc, endpoint, data, locals, response, other, first_run, gui>>

NextExpand ==
    \/ ExpandStart
    \/ ExpandTurn
    \/ ExpandFinish
    \/ ExpandReturn

SpecExpand == Init /\ [][NextExpand]_vars

\* ------------------------------------------------ the animation of the GUI

\* The handlers of the buttons run on the Tk thread, one at a time; every
\* Play starts an animation_loop thread, which runs beside them.
MaxFrames == 3
Frames(n) == [k \in 1..n |-> k]
\* Stale reads can carry the step up without end; the model follows it up to
\* StepCap.
StepCap == MaxFrames + MaxLoops

GuiFrame ==
    UNCHANGED <<world, pc, endpoint, data, locals, response, other, first_run, expand>>

\* send_sequence has a report: its validation list is the animation data.
ShowResult ==
    /\ \E n \in 0..MaxFrames :
           gui' = [gui EXCEPT !.animation_data = Frames(n),
                              !.current_animation_step = 0,
                              !.is_animating = FALSE]
    /\ GuiFrame

\* Step Forward.
animate_step ==
    /\ gui.animation_data # <<>>
    /\ gui.current_animation_step < Len(gui.animation_data) - 1
    /\ gui' = [gui EXCEPT !.current_animation_step = gui.current_animation_step + 1]
    /\ GuiFrame

\* Step Back.
animate_back ==
    /\ gui.animation_data # <<>>
    /\ gui.current_animation_step > 0
    /\ gui' = [gui EXCEPT !.current_animation_step = gui.current_animation_step - 1]
    /\ GuiFrame

\* Reset.
reset_animation ==
    /\ gui' = [gui EXCEPT !.current_animation_step = 0, !.is_animating = FALSE]
    /\ GuiFrame

\* Play/Pause while animating: pause.
PauseAnimation ==
    /\ gui.animation_data # <<>>
    /\ gui.is_animating
    /\ gui' = [gui EXCEPT !.is_animating = FALSE]
    /\ GuiFrame

\* Play/Pause while not animating: play, with a new animation_loop thread.
\* advanced tells which threads have stepped since this Play.
PlayAnimation ==
    /\ gui.animation_data # <<>>
    /\ ~gui.is_animating
    /\ \E t \in 1..MaxLoops :
          /\ gui.loops[t].pc = "none"
          /\ gui' = [gui EXCEPT
                       !.is_animating = TRUE,
                       !.loops = [u \in 1..MaxLoops |->
                                    IF u = t
                                    THEN [pc |-> "check", reg |-> 0, advanced |-> FALSE]
                                    ELSE [gui.loops[u] EXCEPT !.advanced = FALSE]]]
    /\ GuiFrame

\* animation_loop: the test of the while.
LoopCheck(t) ==
    /\ gui.loops[t].pc = "check"
    /\ gui' = [gui EXCEPT
                 !.loops[t].pc =
                    IF /\ gui.is_animating
                       /\ gui.current_animation_step < Len(gui.animation_data) - 1
                    THEN "load" ELSE "exit"]
    /\ GuiFrame

\* animation_loop: current_animation_step += 1, the read.
LoopLoad(t) ==
    /\ gui.loops[t].pc = "load"
    /\ gui.current_animation_step < StepCap
    /\ gui' = [gui EXCEPT !.loops[t].pc = "store",
                          !.loops[t].reg = gui.current_animation_step]
    /\ GuiFrame

\* animation_loop: current_animation_step += 1, the write; then the sleep.
LoopStore(t) ==
    /\ gui.loops[t].pc = "store"
    /\ gui' = [gui EXCEPT !.current_animation_step = gui.loops[t].reg + 1,
                          !.loops[t].pc = "sleep",
                          !.loops[t].reg = 0,
                          !.loops[t].advanced = TRUE]
    /\ GuiFrame

\* animation_loop: the second of sleep is over.
LoopWake(t) ==
    /\ gui.loops[t].pc = "sleep"
    /\ gui' = [gui EXCEPT !.loops[t].pc = "check"]
    /\ GuiFrame

\* animation_loop: after the while, is_animating = False and the thread ends.
LoopExit(t) ==
    /\ gui.loops[t].pc = "exit"
    /\ gui' = [gui EXCEPT !.is_animating = FALSE, !.loops[t].pc = "none"]
    /\ GuiFrame

NextGui ==
    \/ ShowResult
    \/ animate_step
    \/ animate_back
    \/ reset_animation
    \/ PauseAnimation
    \/ PlayAnimation
    \/ \E t \in 1..MaxLoops : LoopCheck(t)
    \/ \E t \in 1..MaxLoops : LoopLoad(t)
    \/ \E t \in 1..MaxLoops : LoopStore(t)
    \/ \E t \in 1..MaxLoops : LoopWake(t)
    \/ \E t \in 1..MaxLoops : LoopExit(t)

SpecGui == Init /\ [][NextGui]_vars

\* ================================================================ claims

VerifyDone == pc = "done" /\ endpoint = "verify"
LastOf(s) == s[Len(s)]

\* C1: the summary of a verify report is "VALID SEQUENCE" if and only if every
\* step record of the report has result valid (the empty list is valid).
C1_SummaryIffAllValid ==
    VerifyDone =>
        (response.summary = "VALID SEQUENCE"
           <=> \A i \in 1..Len(response.validation) :
                   response.validation[i].result = "valid")
C1_Witness ==
    /\ VerifyDone
    /\ response.summary = "INVALID SEQUENCE"
    /\ \E i \in 1..Len(response.validation) :
           response.validation[i].result = "precondition_failed"
    /\ \A i \in 1..Len(response.validation) :
           response.validation[i].result \in {"valid", "precondition_failed"}

\* C2: the battery history of a verify report has one entry per processed
\* action, the actions with a non-valid result included.
C2_HistoryLengthIsActions ==
    VerifyDone => Len(response.battery_history) = Len(actions)

\* C3: the battery level, and every level recorded in the history, is in 0..100.
C3_BatteryInRange ==
    /\ battery_level \in 0..100
    /\ \A i \in 1..Len(battery_history) : battery_history[i] \in 0..100
C3_Witness ==
    /\ endpoint = "verify"
    /\ Len(battery_history) >= 2
    /\ battery_history[Len(battery_history) - 1] = 0
    /\ battery_level = 0
    /\ LastOf(results).result = "valid"
    /\ LastOf(results).action = "pickobject"

\* C4: the battery history never increases, and starts at 100 or less.
C4_HistoryNonIncreasing ==
    \A i \in 1..Len(battery_history) :
        battery_history[i] <= (IF i = 1 THEN 100 ELSE battery_history[i - 1])
C4_Witness ==
    /\ VerifyDone
    /\ Len(battery_history) >= 3
    /\ \E i \in 2..Len(battery_history) : battery_history[i] < battery_history[i - 1]
    /\ \E i \in 2..Len(battery_history) : battery_history[i] = battery_history[i - 1]

\* The drain table as the battery contract states it.
ClaimedDrain ==
    [a \in KnownActions |->
        CASE a \in {"moveforward", "moveleft", "moveright", "turnleft", "turnright"} -> 20
          [] a \in {"scanarea", "pickobject", "releaseobject"} -> 10
          [] a \in {"poweron", "poweroff", "checkbattery", "stop"} -> 0]

\* C5: a step that records a result leaves the battery at
\* max(0, before - drain(action)) when the result is valid, and unchanged
\* when it is not.
C5_DrainPerStep ==
    [][(endpoint = "verify" /\ pc = "loop" /\ Len(results') = Len(results) + 1)
          => LET rec == LastOf(results')
             IN battery_level' =
                  IF rec.result = "valid"
                  THEN Max(0, battery_level - ClaimedDrain[rec.action])
                  ELSE battery_level]_vars
C5_Witness ==
    /\ VerifyDone
    /\ battery_history = <<100, 100, 80, 60, 40, 20, 10>>
    /\ results[1].result = "precondition_failed"
    /\ results[2].action = "poweron"

\* C6: a request that passes the check of its "actions" field ends with a
\* report that holds one step record per action, in the order of the actions.
C6_EveryActionProcessed ==
    /\ endpoint = "verify" => pc # "crashed"
    /\ VerifyDone =>
         /\ Len(response.validation) = Len(actions)
         /\ \A i \in 1..Len(actions) :
                response.validation[i].action = Lower(Strip(actions[i]))

\* C7: a step whose action the oracle does not know is recorded as
\* invalid_action with to_state equal to from_state, leaves the battery and
\* the world facts as they were, marks the run invalid and goes on to the
\* next action.
C7_UnknownActionStep ==
    [][(InLoop /\ ~QueryRaises(ActionAtom) /\ ActionAtom \notin KnownActions)
          => /\ Len(results') = Len(results) + 1
             /\ LastOf(results').action = ActionAtom
             /\ LastOf(results').result = "invalid_action"
             /\ LastOf(results').from_state = SortedList(Range(world))
             /\ LastOf(results').to_state = LastOf(results').from_state
             /\ battery_level' = battery_level
             /\ world' = world
             /\ all_valid' = FALSE
             /\ pc' = "loop"
             /\ step' = step + 1]_vars
C7_Witness ==
    /\ VerifyDone
    /\ response.summary = "INVALID SEQUENCE"
    /\ Len(results) >= 3
    /\ results[2].action = "flyaway"
    /\ results[2].result = "invalid_action"
    /\ results[2].to_state = results[1].to_state
    /\ results[1].result = "valid"
    /\ results[3].result = "valid"

\* C8: a list entry that is not a string is recorded as a step with result
\* invalid_format.
C8_NonStringIsInvalidFormat ==
    (VerifyDone /\ data.kind = "list" /\ ~data.auto_expand)
        => \A i \in 1..Len(data.items) :
               ~data.items[i].isStr => response.validation[i].result = "invalid_format"

\* C9: a turn in which an oracle query raises records a step with result
\* error_processing, and the loop goes on.
C9_RaisedQueryIsRecorded ==
    [][(InLoop /\ QueryRaises(ActionAtom))
          => /\ pc' = "loop"
             /\ step' = step + 1
             /\ Len(results') = Len(results) + 1
             /\ LastOf(results').result = "error_processing"]_vars

\* C10: a request whose "actions" field is missing, or neither a list nor a
\* string, gets an error answer: no step runs, there is no report, and the
\* world facts are what they were before the request.
C10_MalformedRequestRejected ==
    [][(pc = "idle" /\ pc' # "idle" /\ data'.kind \notin {"str", "list"})
          => /\ pc' = "rejected"
             /\ response'.status = 400
             /\ DOMAIN response' = {"status", "error"}
             /\ world' = world
             /\ step' = 0
             /\ results' = <<>>
             /\ fsm_nodes' = <<>>]_vars
C10_Witness ==
    /\ pc = "rejected"
    /\ data.kind = "missing"
    /\ "powered_on" \in Range(world)
    /\ "holding_object" \in Range(world)

\* The facts of the canonical reset state.
CanonicalFacts == {"powered_off", "battery_full", "object_detected"}
SameBodyAgain == first_run # NoFirst /\ data = first_run.data

\* C11: whatever earlier requests left in the database, a verify run starts
\* from the canonical facts: node 0 and the first from_state are exactly
\* these facts, the battery starts at 100, and the report of a body served
\* again after other requests is the report it got when served first.
C11_StartsFromReset ==
    /\ (endpoint = "verify" /\ pc = "loop") =>
         /\ Range(fsm_nodes[1].state) = CanonicalFacts
         /\ fsm_nodes[1].id = 0
         /\ step = 0 => (Range(world) = CanonicalFacts /\ battery_level = 100)
         /\ results # <<>> => Range(results[1].from_state) = CanonicalFacts
    /\ (VerifyDone /\ SameBodyAgain) => response = first_run.response
C11_Witness ==
    /\ VerifyDone
    /\ SameBodyAgain
    /\ Len(results) >= 3
    /\ "holding_object" \in Range(first_run.response.final_state)
    /\ "holding_object" \in Range(world)

\* C13: two verify runs of the same body give the same step records, the
\* same battery history and the same FSM graph.
C13_Deterministic ==
    (VerifyDone /\ SameBodyAgain) =>
        /\ response.validation = first_run.response.validation
        /\ response.battery_history = first_run.response.battery_history
        /\ response.fsm = first_run.response.fsm
C13_Witness ==
    /\ VerifyDone
    /\ SameBodyAgain
    /\ data.auto_expand
    /\ Len(response.fsm.nodes) >= 3
    /\ Len(response.fsm.edges) >= 5

\* C12: while a handler is between its reset and its last step, the world
\* facts change only by that handler's own steps: no reset and no validate
\* of the other handler comes in between.
C12_OracleHeldExclusively ==
    [][/\ (pc = "loop" /\ pc' = "loop" /\ step' = step) => world' = world
       /\ (other.pc = "loop" /\ other'.pc = "loop" /\ other'.step = other.step)
             => world' = world]_vars

FsmDone == pc = "done" /\ endpoint = "fsm"

SameListAsFirst ==
    /\ first_run # NoFirst
    /\ ~first_run.data.auto_expand
    /\ ParseActions(data) = ParseActions(first_run.data)

\* C18: for the same action list /fsm returns exactly the nodes and the edges
\* that verify returns in its fsm field when auto-expansion is disabled.
C18_FsmMatchesVerify ==
    (FsmDone /\ SameListAsFirst) =>
        /\ response.nodes = first_run.response.fsm.nodes
        /\ response.edges = first_run.response.fsm.edges

C18_Witness ==
    /\ FsmDone
    /\ SameListAsFirst
    /\ Len(response.nodes) >= 3
    /\ \E i, j \in DOMAIN response.edges :
          response.edges[i].valid /\ ~response.edges[j].valid

InRun == pc \in {"loop", "done"} /\ endpoint \in {"verify", "fsm"}

NodeOf(id) == fsm_nodes[id + 1]

\* C14: at every point of a run the node table holds at most one node per
\* fact set, the id map sends each fact set seen so far to the node that
\* carries it, and the snapshot the run stands at has its node.
C14_OneNodePerFactSet ==
    InRun =>
        /\ \A i, j \in DOMAIN fsm_nodes :
              Range(fsm_nodes[i].state) = Range(fsm_nodes[j].state) => i = j
        /\ \A k \in DOMAIN state_id_map :
              /\ state_id_map[k] + 1 \in DOMAIN fsm_nodes
              /\ Range(NodeOf(state_id_map[k]).state) = k
        /\ current_state = get_current_world_state(world)
        /\ current_state \in DOMAIN state_id_map

\* A valid action led back to a fact set seen at an earlier step, and the
\* oracle holds its facts in another order than the node lists them.
C14_Witness ==
    /\ InRun
    /\ \E i \in DOMAIN fsm_edges :
          /\ fsm_edges[i].valid
          /\ NodeOf(fsm_edges[i].to).step < fsm_edges[i].step
    /\ world # SortedList(Range(world))

\* C15: at the end of a run the number of edges equals the number of
\* processed actions and edge k carries step number k.
C15_EdgePerAction ==
    (pc = "done" /\ endpoint \in {"verify", "fsm"}) =>
        /\ Len(fsm_edges) = Len(actions)
        /\ \A k \in DOMAIN fsm_edges : fsm_edges[k].step = k

\* C19: node ids are 0, 1, 2, ... in creation order, node 0 is the initial
\* node of step 0, and every edge joins nodes that were in the table when
\* the edge was appended.
C19_IdsInCreationOrder ==
    InRun =>
        /\ \A i \in DOMAIN fsm_nodes : fsm_nodes[i].id = i - 1
        /\ fsm_nodes # <<>>
        /\ fsm_nodes[1].type = "initial"
        /\ fsm_nodes[1].step = 0
        /\ node_counter = Len(fsm_nodes)
        /\ \A i, j \in DOMAIN fsm_nodes :
              i < j => fsm_nodes[i].step < fsm_nodes[j].step
        /\ \A k \in DOMAIN fsm_edges :
              /\ fsm_edges[k].from \in 0..(Len(fsm_nodes) - 1)
              /\ fsm_edges[k].to \in 0..(Len(fsm_nodes) - 1)
              /\ NodeOf(fsm_edges[k].from).step < fsm_edges[k].step
              /\ NodeOf(fsm_edges[k].to).step <= fsm_edges[k].step

C19_Witness ==
    /\ pc = "done"
    /\ endpoint = "verify"
    /\ Len(fsm_nodes) >= 3
    /\ Len(fsm_edges) >= 3
    /\ \E k \in DOMAIN fsm_edges : NodeOf(fsm_edges[k].to).step = fsm_edges[k].step

\* The list built turn by turn is the list verify gets from the call.
ExpandAgrees ==
    expand.pc = "done" =>
        expand.expanded = auto_expand_sequence(expand.actions, expand.manual_objects)

CountOf(seq, a) == Cardinality({k \in DOMAIN seq : Lower(Strip(seq[k])) = a})

\* The simulated agent after a list of actions, from the origin (1.0, 1.0)
\* with 1.5 per movement step.
ReckonX(seq) == StartX + StepLen * (CountOf(seq, "moveright") - CountOf(seq, "moveleft"))
ReckonY(seq) == StartY + StepLen * CountOf(seq, "moveforward")

\* The output up to the place where the pickup of p comes next.
BeforePickup(p) == SubSeq(expand.expanded, 1, p.upto)

WithinReach(p) ==
    /\ Abs(p.nearest_obj[1] - ReckonX(BeforePickup(p))) <= 10
    /\ Abs(p.nearest_obj[2] - ReckonY(BeforePickup(p))) <= 10

\* C16: before a pickup at most 5 lateral steps and at most 5 forward steps
\* are inserted, however far away the object is: the inserted stretch of the
\* output is lateral steps of one direction followed by forward steps, at
\* most 5 of each.
C16_AtMostFivePerAxis ==
    \A k \in DOMAIN expand.picks :
        LET p == expand.picks[k]
            stretch == SubSeq(expand.expanded, p.upto - Len(p.inserted) + 1, p.upto)
        IN /\ stretch = p.inserted
           /\ expand.actions[p.index + 1] = "pickobject"
           /\ CountOf(stretch, "moveleft") + CountOf(stretch, "moveright") <= 5
           /\ CountOf(stretch, "moveforward") <= 5
           /\ Len(stretch) = CountOf(stretch, "moveleft") + CountOf(stretch, "moveright")
                               + CountOf(stretch, "moveforward")
           /\ CountOf(stretch, "moveleft") = 0 \/ CountOf(stretch, "moveright") = 0

\* An object so far away on both axes that 5 steps on each do not reach it.
C16_Witness ==
    /\ expand.pc = "done"
    /\ \E k \in DOMAIN expand.picks :
          /\ CountOf(expand.picks[k].inserted, "moveright") = 5
          /\ CountOf(expand.picks[k].inserted, "moveforward") = 5
          /\ ~WithinReach(expand.picks[k])

\* C17 as stated: at each pickup the agent is within 1 unit of the selected
\* object on each axis whenever the object was within 5 steps (7.5 units) of
\* the agent on each axis before the insertion.
C17_ReachesObjectWithinFiveSteps ==
    \A k \in DOMAIN expand.picks :
        LET p == expand.picks[k]
        IN (/\ Abs(p.nearest_obj[1] - p.from[1]) <= 75
            /\ Abs(p.nearest_obj[2] - p.from[2]) <= 75)
             => WithinReach(p)

\* C17 amended: at each pickup that follows another action of the input, the
\* agent is within 1 unit of the selected object on each axis whenever the
\* object was within 5 steps of the agent on each axis before the insertion
\* and not more than 1 unit behind it.
C17_ReachesObjectAhead ==
    \A k \in DOMAIN expand.picks :
        LET p == expand.picks[k]
        IN (/\ Abs(p.nearest_obj[1] - p.from[1]) <= 75
            /\ p.nearest_obj[2] - p.from[2] <= 75
            /\ p.nearest_obj[2] - p.from[2] >= 0 - 10)
             => WithinReach(p)

\* An object exactly 5 steps away on both axes is reached with 5 and 5.
C17_Witness ==
    /\ expand.pc = "done"
    /\ \E k \in DOMAIN expand.picks :
          LET p == expand.picks[k]
          IN /\ p.nearest_obj[1] - p.from[1] = 75
             /\ p.nearest_obj[2] - p.from[2] = 75
             /\ Len(p.inserted) = 10
             /\ WithinReach(p)

\* C20: the object selected for a pickup is the Euclidean-nearest among the
\* objects no earlier pickup has claimed, and an object claimed by an earlier
\* pickup is never selected again.
C20_NearestUnclaimed ==
    \A q \in DOMAIN expand.picks :
        LET claimed == {expand.picks[k].nearest_obj : k \in 1..(q - 1)}
            unclaimed == Range(expand.manual_objects) \ claimed
            sel == expand.picks[q]
        IN unclaimed # {} =>
             /\ sel.nearest_obj \in unclaimed
             /\ \A o \in unclaimed :
                   Dist2(sel.nearest_obj, sel.from[1], sel.from[2])
                     <= Dist2(o, sel.from[1], sel.from[2])

\* The stretch of the output inserted for the pickup of p, and the output
\* up to the j-th step of that stretch.
Stretch(p) == SubSeq(expand.expanded, p.upto - Len(p.inserted) + 1, p.upto)
UpToStep(p, j) == SubSeq(expand.expanded, 1, p.upto - Len(p.inserted) + j)

\* The gaps between the agent and the object of p after j inserted steps.
GapX(p, j) == p.nearest_obj[1] - ReckonX(UpToStep(p, j))
GapY(p, j) == p.nearest_obj[2] - ReckonY(UpToStep(p, j))

\* Steps of 1.5 until the residual is at most 1, and never more than 5.
StepsUntilReach(gap) ==
    LET hits == {k \in 1..5 : Abs(gap - 15 * k) <= 10}
    IN IF hits = {} THEN 5 ELSE MinOf(hits)

\* C21: for gaps (dx, dy) to the selected object, lateral steps towards the
\* object come first if |dx| > 0.5, until the residual is at most 1 or 5
\* steps are in; then forward steps the same way if dy > 0.5; a gap of at
\* most 0.5 gets no step.  For (5.0, 4.0) and [moveforward, pickobject] the
\* output is moveforward, moveright, moveright, moveforward, pickobject.
C21_InsertionRule ==
    /\ \A k \in DOMAIN expand.picks :
          LET p == expand.picks[k]
              dx == GapX(p, 0)
              dy == GapY(p, 0)
              nl == CountOf(Stretch(p), "moveleft")
              nr == CountOf(Stretch(p), "moveright")
              nf == CountOf(Stretch(p), "moveforward")
          IN /\ Stretch(p) = Repeat("moveleft", nl) \o Repeat("moveright", nr)
                               \o Repeat("moveforward", nf)
             /\ dx > 5 => (nl = 0 /\ nr = StepsUntilReach(dx))
             /\ dx < 0 - 5 => (nr = 0 /\ nl = StepsUntilReach(0 - dx))
             /\ Abs(dx) <= 5 => (nl = 0 /\ nr = 0)
             /\ dy > 5 => nf = StepsUntilReach(dy)
             /\ dy <= 5 => nf = 0
    /\ (/\ expand.pc = "done"
        /\ expand.actions = <<"moveforward", "pickobject">>
        /\ expand.manual_objects = << <<50, 40>> >>)
         => expand.expanded =
              <<"moveforward", "moveright", "moveright", "moveforward", "pickobject">>

C21_Witness ==
    /\ expand.pc = "done"
    /\ expand.actions = <<"moveforward", "pickobject">>
    /\ expand.manual_objects = << <<50, 40>> >>
    /\ Len(expand.expanded) = 5

\* The output the legacy rule gives: two moveforward before a pickup that
\* comes right after scanarea, nothing else.
RECURSIVE LegacyExpected(_, _)
LegacyExpected(acts, k) ==
    IF k > Len(acts) THEN <<>>
    ELSE (IF k > 1 /\ acts[k] = "pickobject" /\ acts[k - 1] = "scanarea"
          THEN <<"moveforward", "moveforward">>
          ELSE <<>>)
           \o <<acts[k]>> \o LegacyExpected(acts, k + 1)

\* C22: without manual objects exactly two moveforward are inserted before a
\* pickup if and only if the action right before it in the input is
\* scanarea; before any other pickup nothing is inserted.
C22_LegacyTwoForward ==
    (expand.pc = "done" /\ expand.manual_objects = <<>>) =>
        expand.expanded = LegacyExpected(expand.actions, 1)

C22_Witness ==
    /\ expand.pc = "done"
    /\ expand.manual_objects = <<>>
    /\ expand.actions = <<"scanarea", "pickobject", "pickobject">>
    /\ Len(expand.expanded) = 5

Movements == {"moveleft", "moveright", "moveforward"}

\* out is acts with runs of movements put in, each run right before a
\* pickobject that is not the first action.
RECURSIVE IsExpansionOf(_, _)
IsExpansionOf(out, acts) ==
    IF acts = <<>> THEN out = <<>>
    ELSE /\ out # <<>>
         /\ out[1] = acts[1]
         /\ IF Len(acts) >= 2 /\ acts[2] = "pickobject"
            THEN \E n \in 0..(Len(out) - 1) :
                    /\ \A j \in 2..(n + 1) : out[j] \in Movements
                    /\ IsExpansionOf(SubSeq(out, n + 2, Len(out)), Tail(acts))
            ELSE IsExpansionOf(Tail(out), Tail(acts))

\* C26: auto-expansion only adds: the input actions are in the output in
\* their order, unchanged; what is inserted is moveleft, moveright or
\* moveforward, in runs right before a pickobject that is not the first
\* action of the input.
C26_OnlyAdds ==
    expand.pc = "done" => IsExpansionOf(expand.expanded, expand.actions)

\* A pickobject at index 0 with an object at hand got nothing, a later one
\* got a run.
C26_Witness ==
    /\ expand.pc = "done"
    /\ expand.actions # <<>>
    /\ expand.actions[1] = "pickobject"
    /\ expand.expanded[1] = "pickobject"
    /\ expand.manual_objects # <<>>
    /\ \E k \in DOMAIN expand.picks : Len(expand.picks[k].inserted) >= 2

\* The gap on the axis of the j-th inserted step of p, after i steps.
GapOnAxis(p, j, i) ==
    IF Stretch(p)[j] = "moveforward" THEN Abs(GapY(p, i)) ELSE Abs(GapX(p, i))

\* C27 as stated: every inserted step strictly reduces the absolute gap on
\* its axis, and the insertion leaves the agent no farther from the object
\* on an axis than it was.
C27_EveryStepCloser ==
    \A k \in DOMAIN expand.picks :
        LET p == expand.picks[k]
        IN /\ \A j \in 1..Len(p.inserted) : GapOnAxis(p, j, j) < GapOnAxis(p, j, j - 1)
           /\ Abs(GapX(p, Len(p.inserted))) <= Abs(GapX(p, 0))
           /\ Abs(GapY(p, Len(p.inserted))) <= Abs(GapY(p, 0))

\* C27 amended: an inserted step strictly reduces the absolute gap on its
\* axis when that gap is more than half a step (0.75) before the step, and
\* after the insertion the gap on each axis is no larger than before or at
\* most 1 unit.
C27_StepCloserBeyondHalfStep ==
    \A k \in DOMAIN expand.picks :
        LET p == expand.picks[k]
            n == Len(p.inserted)
        IN /\ \A j \in 1..n :
                 2 * GapOnAxis(p, j, j - 1) > 15
                    => GapOnAxis(p, j, j) < GapOnAxis(p, j, j - 1)
           /\ Abs(GapX(p, n)) <= Abs(GapX(p, 0)) \/ Abs(GapX(p, n)) <= 10
           /\ Abs(GapY(p, n)) <= Abs(GapY(p, 0)) \/ Abs(GapY(p, n)) <= 10

\* Steps to the left, each one closer, for an object that is behind the
\* agent, so that nothing is inserted on y.
C27_Witness ==
    /\ expand.pc = "done"
    /\ \E k \in DOMAIN expand.picks :
          /\ CountOf(expand.picks[k].inserted, "moveleft") >= 2
          /\ CountOf(expand.picks[k].inserted, "moveforward") = 0
          /\ GapY(expand.picks[k], 0) < 0 - 10

PickupsUpTo(n) ==
    CountOf(SubSeq(expand.actions, 1, Min(n, Len(expand.actions))), "pickobject")

\* C28: auto_expand_sequence terminates and its output is at most
\* len(actions) + 10 * (number of pickobject in the input) long: every turn
\* of the loop moves i one closer to len(actions), where the loop ends, and
\* after i turns the output is at most i + 10 * (pickups looked at) long.
C28_TerminatesWithinBound ==
    /\ [](/\ expand.i <= Len(expand.actions)
          /\ Len(expand.expanded) <= expand.i + 10 * PickupsUpTo(expand.i + 1)
          /\ expand.pc = "done" =>
                Len(expand.expanded)
                  <= Len(expand.actions) + 10 * CountOf(expand.actions, "pickobject"))
    /\ [][(expand.pc = "loop" /\ expand'.pc = "loop") =>
             (expand.i < Len(expand.actions) /\ expand'.i = expand.i + 1)]_vars

\* The bound is met: ten steps for one pickup.
C28_Witness ==
    /\ expand.pc = "done"
    /\ CountOf(expand.actions, "pickobject") = 1
    /\ Len(expand.expanded) = Len(expand.actions) + 10

\* C23: in every step record precondition_met tells whether the action's
\* preconditions held before the step: true for every valid step, false for
\* every step whose result is precondition_failed.
C23_PreconditionMetBeforeStep ==
    \A k \in DOMAIN results :
        /\ results[k].result = "valid" => results[k].precondition_met
        /\ results[k].result = "precondition_failed" => ~results[k].precondition_met

\* C24: the edges of a run are one walk: the first edge leaves node 0, every
\* later edge leaves the node the edge before it entered, and the node the
\* run stands at carries the facts the oracle holds.
C24_EdgesFormOneWalk ==
    InRun =>
        LET at == IF fsm_edges = <<>> THEN 0 ELSE fsm_edges[Len(fsm_edges)].to
        IN /\ fsm_edges # <<>> => fsm_edges[1].from = 0
           /\ \A k \in 2..Len(fsm_edges) : fsm_edges[k].from = fsm_edges[k - 1].to
           /\ current_state \in DOMAIN state_id_map
           /\ state_id_map[current_state] = at
           /\ at + 1 \in DOMAIN fsm_nodes
           /\ Range(NodeOf(at).state) = Range(world)

\* A walk that comes back to a node it has left, with a failed step on it.
C24_Witness ==
    /\ pc = "done"
    /\ endpoint = "verify"
    /\ Len(fsm_edges) >= 3
    /\ \E k \in DOMAIN fsm_edges : fsm_edges[k].from = fsm_edges[k].to /\ ~fsm_edges[k].valid
    /\ \E k \in DOMAIN fsm_edges : fsm_edges[k].from # fsm_edges[k].to

\* C25: the step records chain: the first from_state is the reset fact set,
\* each later from_state is the to_state of the record before, and
\* final_state has the members of the last to_state, or of the reset fact
\* set when there is no record.
C25_RecordsChain ==
    /\ (endpoint = "verify" /\ pc \in {"loop", "done"}) =>
          /\ results # <<>> => Range(results[1].from_state) = CanonicalFacts
          /\ \A k \in 2..Len(results) : results[k].from_state = results[k - 1].to_state
    /\ VerifyDone =>
          /\ response.validation = results
          /\ Range(response.final_state)
               = IF results = <<>> THEN CanonicalFacts
                 ELSE Range(results[Len(results)].to_state)

\* A report whose records pass through an unknown action and end in another
\* fact set than the reset one.
C25_Witness ==
    /\ VerifyDone
    /\ Len(response.validation) >= 3
    /\ \E k \in DOMAIN results : results[k].result = "invalid_action"
    /\ Range(response.final_state) # CanonicalFacts

\* C29: whenever animation_data is not empty, current_animation_step is
\* within 0..len(animation_data)-1.
C29_StepWithinFrames ==
    gui.animation_data # <<>> =>
        gui.current_animation_step \in 0..(Len(gui.animation_data) - 1)

\* C30: at most one animation loop advances the step: no two loop threads
\* have both stepped since the last Play.
C30_OneLoopAdvances ==
    Cardinality({t \in 1..MaxLoops : gui.loops[t].advanced}) <= 1

====
